---- MODULE Spec2Model ----
(***************************************************************************)
(* A model of the XRF protocol driver (src/xrf.py) and of the callers of   *)
(* its outward operations (src/xrf-api.py).                                *)
(*                                                                         *)
(* Bytes are the integers 0..255.  A one-character Python 2 string such as *)
(* 'R' is modelled by its character code (ord), so UMSG_RXPKT is 82.       *)
(***************************************************************************)
EXTENDS Integers, Sequences, FiniteSets, TLC

(***************************************************************************)
(* Program constants.                                                      *)
(***************************************************************************)
UMSG_RXPKT == 82
UMSG_TXPKT == 84
UMSG_CMD == 67
UMSG_LOG == 76

UMSGST_IDLE == 0
UMSGST_LEN == 1
UMSGST_DATA == 2

XRF_IDLE == 0

XRF_TYPE_ID == 0
XRF_TYPE_IDACK == 1
XRF_TYPE_GET == 2
XRF_TYPE_GETACK == 3
XRF_TYPE_SET == 4
XRF_TYPE_SETACK == 5
XRF_TYPE_REPORT == 6
XRF_TYPE_REPORTACK == 7

XRF_TYPE_SHIFT == 4
XRF_PARAM_SHIFT == 15

XRF_PARAM_MOTIONSIMPLE == 0
XRF_PARAM_MOTIONFANCY == 1
XRF_PARAM_LIGHT == 2
XRF_PARAM_IPWM == 5

UCMD_CHANNEL == 2

\* XrfCommsThread.defaultHops; setHopCount has no caller.
defaultHops == 0

(***************************************************************************)
(* Bounds of the model.                                                    *)
(***************************************************************************)
MaxStream == 5
MaxChunk == 3
MaxFrames == 2
MaxCalls == 1
MaxTime == 1

VARIABLES
    state,       \* XrfCommsThread.state: the framer's state
    rxPkt,       \* XrfCommsThread.rxPkt: the frame being collected
    rxQueue,     \* XrfCommsThread.rxQueue: completed frames, oldest first
    serialIn,    \* bytes on the serial link that the pump has not read yet
    fed,         \* history: the bytes handed to parse_buff so far
    cuts,        \* history: the lengths of fed at which a call ended
    received,    \* the number of frames the dongle has sent
    txQueue,     \* XrfCommsThread.txQueue: frames to write, oldest first
    channel,     \* XrfCommsThread.channel
    currentChannel,     \* XrfAPI.currentChannel
    discoveredDevices,  \* XrfAPI.discoveredDevices: uidStr -> a dict object
    heap,        \* the dict objects: reference -> (field -> value)
    deviceLock,  \* XrfAPI.deviceLock: "unlocked", or the thread holding it
    now,         \* the clock, as last read by time.ctime()
    apiPc,       \* the dispatch thread's position in run / parseRxPacket
    apiPayload,  \* parseRxPacket's payload
    apiDevice,   \* parseRxPacket's device
    apiIo,       \* the output the dispatch thread's last step made, or "none"
    callers,     \* the threads calling the outward operations
    before,      \* history: the registry when the dispatch thread took the lock
    sighted,     \* history: identities of the IDACK/REPORTACK packets dispatched
    serialOut,   \* history: the bytes written to the serial link, oldest first
    enqueued,    \* history: the frames put on txQueue, oldest first
    dispatched,  \* history: the frames run took off rxQueue, oldest first
    pumpPc,      \* the pump thread's position in XrfCommsThread.run
    pumpPkt,     \* XrfCommsThread.run's pkt
    phase,       \* what the pump did last in its write loop: "start", "written", "paced"
    request,     \* the arguments of the call under study
    result,      \* what that call produced
    heard,       \* history: identity -> the channel the radio was on when its
                 \* latest IDACK came in on the link
    sweeps       \* history: the channels of the sweeps, in the order of their
                 \* ID requests' enqueueing

framerVars == <<state, rxPkt, rxQueue>>
feedVars == <<serialIn, fed, cuts>>
pumpVars == <<state, rxPkt, rxQueue, received>>
apiVars == <<apiPc, apiPayload, apiDevice, apiIo, before, sighted>>
registryVars == <<discoveredDevices, heap, deviceLock>>
linkVars == <<serialOut, enqueued, dispatched, pumpPc, pumpPkt, phase>>
callVars == <<request, result>>
noteVars == <<heard, sweeps>>
engineVars == <<received, txQueue, channel, currentChannel, discoveredDevices, heap,
                deviceLock, now, apiPc, apiPayload, apiDevice, apiIo, callers, before,
                sighted>>
vars == <<state, rxPkt, rxQueue, serialIn, fed, cuts, received, txQueue, channel,
          currentChannel, discoveredDevices, heap, deviceLock, now, apiPc, apiPayload,
          apiDevice, apiIo, callers, before, sighted, serialOut, enqueued, dispatched,
          pumpPc, pumpPkt, phase, request, result, heard, sweeps>>

(***************************************************************************)
(* UartPacket and the framer.                                              *)
(***************************************************************************)
\* A UartPacket object; the class attributes are type = 0, length = 0.
UartPacket(type, length, payload) ==
    [type |-> type, length |-> length, payload |-> payload]

\* self.rxPkt = None
None == UartPacket(0, 0, <<>>)

new_packet(pkt_type) == UartPacket(pkt_type, 0, <<>>)

Tags == {UMSG_RXPKT, UMSG_TXPKT, UMSG_CMD, UMSG_LOG}

\* The framer as a value: the three fields parse_buff reads and writes.
Framer(st, pkt, q) == [state |-> st, rxPkt |-> pkt, rxQueue |-> q]

\* One iteration of parse_buff's loop, on the byte ch.
parse_byte(fr, ch) ==
    IF fr.state = UMSGST_IDLE
    THEN IF ch \in Tags
         THEN Framer(UMSGST_LEN, new_packet(ch), fr.rxQueue)
         ELSE fr
    ELSE IF fr.state = UMSGST_LEN
    THEN Framer(UMSGST_DATA, [fr.rxPkt EXCEPT !.length = ch], fr.rxQueue)
    ELSE IF fr.state = UMSGST_DATA
    THEN LET pkt == [fr.rxPkt EXCEPT !.payload = Append(@, ch)]
         IN  IF Len(pkt.payload) >= pkt.length - 2
             THEN Framer(UMSGST_IDLE, pkt, Append(fr.rxQueue, pkt))
             ELSE Framer(UMSGST_DATA, pkt, fr.rxQueue)
    ELSE fr

\* parse_buff's loop "for i in range(count)" over the bytes of buff.
RECURSIVE parse_loop(_, _)
parse_loop(fr, buff) ==
    IF buff = <<>> THEN fr
    ELSE parse_loop(parse_byte(fr, Head(buff)), Tail(buff))

\* A framer that starts every call in the awaiting-tag state.
parse_buff_restarts(fr, buff) ==
    parse_loop(Framer(UMSGST_IDLE, fr.rxPkt, fr.rxQueue), buff)

\* parse_buff(buff), from the framer fr: it resumes in the state the last
\* call left.
parse_buff(fr, buff) ==
    parse_loop(fr, buff)

\* The framer after XrfCommsThread.__init__.
InitFramer == Framer(XRF_IDLE, None, <<>>)

\* A serialisation that leaves the length byte out.
transmit_packet_no_length(pkt) == <<pkt.type>> \o pkt.payload

\* transmit_packet's serialisation: tag byte, length byte, payload.
transmit_packet(pkt) == <<pkt.type, pkt.length>> \o pkt.payload

(***************************************************************************)
(* Python values: bytearray indexing, dicts, formatted strings.            *)
(***************************************************************************)
\* payload[i], i counted from 0 as in the source.
Byte(payload, i) == payload[i + 1]

\* A dict is a function from its keys; dict() is the empty one.
EmptyDict == <<>>

\* d[k] = v
Put(d, k, v) == [x \in DOMAIN d \cup {k} |-> IF x = k THEN v ELSE d[x]]

\* d without the key k
Without(d, k) == [x \in DOMAIN d \ {k} |-> d[x]]

Digits == <<"0", "1", "2", "3", "4", "5", "6", "7", "8", "9",
            "a", "b", "c", "d", "e", "f">>

\* "%02x" % b
Hex02(b) == Digits[(b \div 16) + 1] \o Digits[(b % 16) + 1]

\* "".join("%02x" % b for b in uid)
RECURSIVE HexJoin(_)
HexJoin(uid) ==
    IF uid = <<>> THEN "" ELSE Hex02(Head(uid)) \o HexJoin(Tail(uid))

\* str(n), n >= 0
RECURSIVE str(_)
str(n) ==
    IF n < 10 THEN Digits[n + 1] ELSE str(n \div 10) \o Digits[(n % 10) + 1]

modelToString(model) ==
    IF model = 0 THEN "Athena"
    ELSE IF model = 1 THEN "AthenaX"
    ELSE IF model = 2 THEN "Artemis"
    ELSE IF model = 4 THEN "Artemis XL"
    ELSE IF model = 6 THEN "USB Dongle"
    ELSE str(model)

\* A type field reduced to its acknowledge bit (XRF_TYPE_ACKBIT).
msgtype_of_ackbit(payload) == (Byte(payload, 1) \div 16) % 2

\* A type field taken with the mask 0x50 in place of 0x70.
msgtype_of_mask50(payload) ==
    LET t == (Byte(payload, 1) % 128) \div 16
    IN  (t \div 4) * 4 + (t % 2)

(***************************************************************************)
(* parseRxPacket's split of a radio packet.                                *)
(***************************************************************************)
\* (msgheader & 0x70) >> 4
msgtype_of(payload) == (Byte(payload, 1) % 128) \div 16

\* msgheader & 0x0F
msgparam_of(payload) == Byte(payload, 1) % 16

hopcount_of(payload) == Byte(payload, 2)

group_of(payload) == Byte(payload, 3)

\* bytearray([payload[4], ..., payload[11]])
uid_of(payload) == [i \in 1..8 |-> Byte(payload, 3 + i)]

uidStr_of(payload) == HexJoin(uid_of(payload))

\* A version that forgets the scaling by 10.
version_unscaled(payload) == Byte(payload, 12)

\* payload[12] * 10
version_of(payload) == Byte(payload, 12) * 10

model_of(payload) == Byte(payload, 13)

\* The number of bytes parseRxPacket indexes for a packet of this type; a
\* shorter payload raises IndexError.
HeaderBytes == 4
IdackBytes == 14
ReportackBytes == 12

(***************************************************************************)
(* The registry: discoveredDevices maps uidStr to a reference, heap holds  *)
(* the dict each reference points at.                                      *)
(***************************************************************************)
\* The registry as a value: uidStr -> the fields of its record.
Registry == [k \in DOMAIN discoveredDevices |-> heap[discoveredDevices[k]]]

\* A reference no object has.
NewRef(hp) == CHOOSE r \in 1..(Cardinality(DOMAIN hp) + 1) :
                  /\ r \notin DOMAIN hp
                  /\ \A q \in 1..(r - 1) : q \in DOMAIN hp

\* The result of a lookup-or-create: the registry, the heap and the device.
Found(dd, hp, device) == [dd |-> dd, heap |-> hp, device |-> device]

\* A lookup that makes a fresh dict also for a known identity.
get_or_create_replaces(dd, hp, key) ==
    LET r == NewRef(hp)
    IN  Found(Put(dd, key, r), Put(hp, r, EmptyDict), r)

\* A lookup that makes a dict for a new identity and does not store it.
get_or_create_forgets(dd, hp, key) ==
    IF key \in DOMAIN dd /\ hp[dd[key]] # EmptyDict
    THEN Found(dd, hp, dd[key])
    ELSE LET r == NewRef(hp)
         IN  Found(dd, Put(hp, r, EmptyDict), r)

\* device = self.discoveredDevices.get(uidStr); if not device: device =
\* dict(); self.discoveredDevices[uidStr] = device.  An empty dict is false.
get_or_create(dd, hp, key) ==
    IF key \in DOMAIN dd /\ hp[dd[key]] # EmptyDict
    THEN Found(dd, hp, dd[key])
    ELSE LET r == NewRef(hp)
         IN  Found(Put(dd, key, r), Put(hp, r, EmptyDict), r)

\* A lock that anyone may take at any time.
CanAcquire_always == TRUE

\* threading.Lock.acquire() returns once the lock is unlocked.
CanAcquire == deviceLock = "unlocked"

(***************************************************************************)
(* The threads that call the outward operations (the HTTP handlers).       *)
(***************************************************************************)
Callers == {"caller"}

\* A caller: where it is, the argument of its call, and getDevices' keys and
\* device_list (a list of references).
Caller(pc, arg, keys, device_list, calls) ==
    [pc |-> pc, arg |-> arg, keys |-> keys, device_list |-> device_list,
     calls |-> calls]

\* The state after XrfAPI.__init__: an empty registry, channel 1.
InitEngine ==
    /\ received = 0
    /\ txQueue = <<>>
    /\ channel = 0
    /\ currentChannel = 1
    /\ discoveredDevices = EmptyDict
    /\ heap = EmptyDict
    /\ deviceLock = "unlocked"
    /\ now = 0
    /\ apiPc = "poll"
    /\ apiPayload = <<>>
    /\ apiDevice = 0
    /\ apiIo = "none"
    /\ callers = [c \in Callers |-> Caller("idle", 0, {}, <<>>, 0)]
    /\ before = [refs |-> EmptyDict, vals |-> EmptyDict]
    /\ sighted = {}
    /\ serialOut = <<>>
    /\ enqueued = <<>>
    /\ dispatched = <<>>
    /\ pumpPc = "inWaiting"
    /\ pumpPkt = None
    /\ phase = "start"
    /\ heard = <<>>
    /\ sweeps = <<>>

\* No call is under study.
InitCall ==
    /\ request = None
    /\ result = None

(***************************************************************************)
(* The framer fed a byte stream in chunks.                                 *)
(***************************************************************************)
\* The bytes the streams are made of: two tags, and three bytes that are no
\* tag and serve as lengths, payload and stray bytes.
StreamBytes == {UMSG_RXPKT, UMSG_LOG, 1, 2, 4}

RECURSIVE SeqsUpTo(_, _)
SeqsUpTo(S, n) ==
    IF n = 0 THEN {<<>>}
    ELSE LET shorter == SeqsUpTo(S, n - 1)
         IN  shorter \cup {Append(s, b) : s \in {t \in shorter : Len(t) = n - 1}, b \in S}

Take(s, k) == SubSeq(s, 1, k)
Drop(s, k) == SubSeq(s, k + 1, Len(s))

InitFeed ==
    /\ state = InitFramer.state
    /\ rxPkt = InitFramer.rxPkt
    /\ rxQueue = InitFramer.rxQueue
    /\ serialIn \in SeqsUpTo(StreamBytes, MaxStream)
    /\ fed = <<>>
    /\ cuts = {}
    /\ InitEngine
    /\ InitCall

\* One call parse_buff(buff), buff the next k bytes of the stream (k = 0: an
\* empty chunk).
Feed(k) ==
    /\ k <= Len(serialIn)
    /\ LET buff == Take(serialIn, k)
           fr == parse_buff(Framer(state, rxPkt, rxQueue), buff)
       IN  /\ state' = fr.state
           /\ rxPkt' = fr.rxPkt
           /\ rxQueue' = fr.rxQueue
           /\ serialIn' = Drop(serialIn, k)
           /\ fed' = fed \o buff
           /\ cuts' = cuts \cup {Len(fed) + k}
    /\ UNCHANGED <<engineVars, linkVars, callVars, noteVars>>

NextFeed == \E k \in 0..MaxChunk : Feed(k)

SpecFramer == InitFeed /\ [][NextFeed]_vars

(***************************************************************************)
(* Claims about the framer, checked under SpecFramer.                      *)
(***************************************************************************)
\* The well-formed frames over StreamBytes: a recognized tag, and a length
\* byte equal to 2 + the number of payload bytes.
ValidFrames ==
    {UartPacket(t, Len(p) + 2, p) :
        t \in Tags \cap StreamBytes,
        p \in {q \in SeqsUpTo(StreamBytes, MaxStream) : Len(q) + 2 \in StreamBytes}}

NoTagIn(s) == \A i \in 1..Len(s) : s[i] \notin Tags

\* C2: every frame on the inbound queue has a recognized tag and a payload of
\* exactly (declared length - 2) bytes, for every declared length, 2 included.
C2_PayloadIsDeclaredLength ==
    \A i \in 1..Len(rxQueue) :
        /\ rxQueue[i].type \in Tags
        /\ Len(rxQueue[i].payload) = rxQueue[i].length - 2

\* C3: after a recognized tag and a length byte below 2 the framer has emitted
\* no frame and awaits a tag again; a valid frame fed right after is emitted
\* complete and unchanged.
C3_ShortLengthDropped ==
    (Len(fed) >= 2 /\ fed[1] \in Tags /\ fed[2] < 2) =>
        /\ Len(fed) = 2 => (state = UMSGST_IDLE /\ rxQueue = <<>>)
        /\ \A f \in ValidFrames :
              Drop(fed, 2) = transmit_packet(f) => rxQueue = <<f>>

\* C4: fed in chunks, whatever the cuts, the framer is where one call on the
\* whole stream puts it: the same frames on the queue, in the same order, and
\* the same partial frame.
C4_ChunkIndependence ==
    Framer(state, rxPkt, rxQueue) = parse_buff(InitFramer, fed)

\* C4's case: a frame with a two-byte payload was emitted from a stream cut
\* after the tag, after the length and inside the payload.
C4_Witness ==
    /\ fed = <<UMSG_RXPKT, 4, 1, 2>>
    /\ {1, 2, 3} \subseteq cuts
    /\ rxQueue = <<UartPacket(UMSG_RXPKT, 4, <<1, 2>>)>>

\* C5: from the awaiting-tag state, stray bytes (no tag among them) leave the
\* framer as it was, and followed by one valid frame they yield exactly that
\* frame.
C5_StrayBytesSkipped ==
    \A k \in 1..Len(fed) :
        NoTagIn(Take(fed, k)) =>
            /\ k = Len(fed) => Framer(state, rxPkt, rxQueue) = InitFramer
            /\ \A f \in ValidFrames :
                  Drop(fed, k) = transmit_packet(f) =>
                      (rxQueue = <<f>> /\ state = UMSGST_IDLE)

(***************************************************************************)
(* The frames the dongle sends in the engine's specification.              *)
(***************************************************************************)
U1 == <<1, 2, 3, 4, 5, 6, 7, 8>>
U2 == <<171, 205, 239, 0, 16, 15, 240, 255>>

\* A radio packet: size (the bytes after it), header, hop, group, the rest.
RadioPacket(type, param, hop, group, rest) ==
    <<Len(rest) + 3, type * 16 + param, hop, group>> \o rest

IdAck(uid, hop, group, version, model) ==
    RadioPacket(XRF_TYPE_IDACK, 0, hop, group, uid \o <<version, model>>)

ReportAck(uid, param, hop, group, value) ==
    RadioPacket(XRF_TYPE_REPORTACK, param, hop, group, uid \o value)

\* The payloads of the 'R' frames: well-formed IDACK and REPORTACK packets for
\* two identities, and packets cut short of the fields their type requires.
RxPayloads ==
    { IdAck(U1, 2, 1, 21, 0),
      IdAck(U2, 0, 255, 255, 3),
      ReportAck(U1, XRF_PARAM_MOTIONSIMPLE, 3, 4, <<1>>),
      ReportAck(U1, XRF_PARAM_MOTIONFANCY, 3, 4, <<>>),
      ReportAck(U1, XRF_PARAM_LIGHT, 5, 6, <<7, 8>>),
      Take(IdAck(U1, 2, 1, 21, 0), 3),
      Take(IdAck(U1, 2, 1, 21, 0), 13),
      Take(ReportAck(U1, XRF_PARAM_MOTIONSIMPLE, 3, 4, <<>>), 11) }

Frame(type, payload) == UartPacket(type, Len(payload) + 2, payload)

\* The frames the dongle sends: the 'R' frames, a log line that is not ASCII
\* and a command echo.
DongleFrames ==
    {Frame(UMSG_RXPKT, p) : p \in RxPayloads}
        \cup {Frame(UMSG_LOG, <<200>>), Frame(UMSG_CMD, <<UCMD_CHANNEL, 2>>)}

Channels == {1, 2}
Groups == {255}

(***************************************************************************)
(* The link pump's read phase (XrfCommsThread.run).                        *)
(***************************************************************************)
\* serial.read returns the bytes of the frame f; parse_buff frames them.
PumpRead(f) ==
    /\ received < MaxFrames
    /\ received' = received + 1
    /\ LET fr == parse_buff(Framer(state, rxPkt, rxQueue), transmit_packet(f))
       IN  /\ state' = fr.state
           /\ rxPkt' = fr.rxPkt
           /\ rxQueue' = fr.rxQueue
    /\ UNCHANGED <<feedVars, linkVars, callVars, noteVars, txQueue, channel, currentChannel, registryVars, now,
                   apiVars, callers>>

(***************************************************************************)
(* The dispatch loop (XrfAPI.run) and parseRxPacket.                       *)
(***************************************************************************)
\* An IDACK or REPORTACK long enough for the fields parseRxPacket reads: the
\* packets that reach the device's lookup.
IsRegistryPacket(payload) ==
    \/ msgtype_of(payload) = XRF_TYPE_IDACK /\ Len(payload) >= IdackBytes
    \/ msgtype_of(payload) = XRF_TYPE_REPORTACK /\ Len(payload) >= ReportackBytes

NoBefore == [refs |-> EmptyDict, vals |-> EmptyDict]

\* A queue that hands out its newest item first.
Queue_get_newest(q) ==
    [item |-> q[Len(q)], queue |-> SubSeq(q, 1, Len(q) - 1)]

\* Queue.get() on a queue that is not empty: the oldest item, and the queue
\* without it.
Queue_get(q) ==
    [item |-> Head(q), queue |-> Tail(q)]

\* One iteration of run: take a frame off the inbound queue and branch on its
\* type.  For an 'R' frame parseRxPacket reads payload[0..3]: an IndexError
\* there is caught by nothing, and ends the thread.
\* pkt.payload.decode('ascii'): a byte above 127 raises UnicodeDecodeError.
decodes_ascii(payload) == \A i \in DOMAIN payload : payload[i] < 128

\* The output of one iteration of run, up to parseRxPacket's acquire: the
\* packet's summary logged by parseRxPacket (line 621) once payload[0..3] were
\* read, the echo printed for a 'T' or 'C' frame, nothing for a log line,
\* whether it decodes or not (its logging is commented out, the exception
\* passed over).
run_io(pkt) ==
    IF pkt.type = UMSG_RXPKT
    THEN IF Len(pkt.payload) < HeaderBytes THEN "none" ELSE "logging.debug"
    ELSE IF pkt.type = UMSG_LOG THEN "none"
    ELSE "print"

Dispatch ==
    /\ apiPc = "poll"
    /\ rxQueue # <<>>
    /\ LET pkt == Queue_get(rxQueue).item
       IN  /\ rxQueue' = Queue_get(rxQueue).queue
           /\ apiIo' = run_io(pkt)
           /\ IF pkt.type = UMSG_RXPKT
              THEN /\ apiPayload' = pkt.payload
                   /\ apiPc' = IF Len(pkt.payload) < HeaderBytes
                               THEN "dead" ELSE "acquire"
                   /\ sighted' = IF Len(pkt.payload) >= HeaderBytes
                                     /\ IsRegistryPacket(pkt.payload)
                                  THEN sighted \cup {uid_of(pkt.payload)}
                                  ELSE sighted
              ELSE UNCHANGED <<apiPayload, apiPc, sighted>>
    /\ UNCHANGED <<state, rxPkt, received, feedVars, callVars, noteVars, txQueue, channel,
                   currentChannel, registryVars, now, apiDevice, before, callers,
                   serialOut, enqueued, pumpPc, pumpPkt, phase>>

ApiGet ==
    /\ Dispatch
    /\ UNCHANGED dispatched

\* self.deviceLock.acquire()
ApiAcquire ==
    /\ apiPc = "acquire"
    /\ CanAcquire
    /\ deviceLock' = "XrfAPI"
    /\ before' = [refs |-> discoveredDevices, vals |-> Registry]
    /\ apiPc' = "branch"
    /\ apiIo' = "none"
    /\ UNCHANGED <<pumpVars, feedVars, linkVars, callVars, noteVars, txQueue, channel, currentChannel,
                   discoveredDevices, heap, now, apiPayload, apiDevice, sighted,
                   callers>>

\* The branch on msgtype, up to the device's lookup.  A payload too short for
\* the type's fields raises IndexError with the lock held.
ApiBranch ==
    /\ apiPc = "branch"
    /\ LET msgtype == msgtype_of(apiPayload)
           needed == IF msgtype = XRF_TYPE_IDACK THEN IdackBytes ELSE ReportackBytes
       IN  IF msgtype \in {XRF_TYPE_IDACK, XRF_TYPE_REPORTACK}
           THEN IF Len(apiPayload) < needed
                THEN /\ apiPc' = "dead"
                     /\ apiIo' = "none"
                     /\ UNCHANGED <<discoveredDevices, heap, apiDevice>>
                ELSE LET got == get_or_create(discoveredDevices, heap,
                                              uidStr_of(apiPayload))
                     IN  /\ discoveredDevices' = got.dd
                         /\ heap' = got.heap
                         /\ apiDevice' = got.device
                         /\ apiIo' = "logging.debug"
                         /\ apiPc' = IF msgtype = XRF_TYPE_IDACK
                                     THEN "model" ELSE "group"
           ELSE /\ apiPc' = "release"
                /\ apiIo' = "logging.debug"
                /\ UNCHANGED <<discoveredDevices, heap, apiDevice>>
    /\ UNCHANGED <<pumpVars, feedVars, linkVars, callVars, noteVars, txQueue, channel, currentChannel, deviceLock,
                   now, apiPayload, before, sighted, callers>>

IsMotion(param) == param \in {XRF_PARAM_MOTIONSIMPLE, XRF_PARAM_MOTIONFANCY}

\* The statement after the assignment at pc, for a packet of this type and
\* parameter.
AfterWrite(pc, msgtype, param) ==
    IF msgtype = XRF_TYPE_IDACK
    THEN CASE pc = "model" -> "group"
           [] pc = "group" -> "hopcount"
           [] pc = "hopcount" -> "channel"
           [] pc = "channel" -> "fwversion"
           [] OTHER -> "release"
    ELSE CASE pc = "group" -> "hopcount"
           [] pc = "hopcount" -> IF IsMotion(param) THEN "lastmotion" ELSE "release"
           [] pc = "lastmotion" -> "lastmotiontype"
           [] OTHER -> "release"

\* The value the assignment device[pc] = ... stores; t is the clock's reading.
Written(pc, payload, t) ==
    CASE pc = "model" -> modelToString(model_of(payload))
      [] pc = "group" -> group_of(payload)
      [] pc = "hopcount" -> hopcount_of(payload)
      [] pc = "channel" -> currentChannel
      [] pc = "fwversion" -> version_of(payload)
      [] pc = "lastmotion" -> t
      [] OTHER -> IF msgparam_of(payload) = XRF_PARAM_MOTIONSIMPLE
                  THEN "simple" ELSE "fancy"

FieldPcs == {"model", "group", "hopcount", "channel", "fwversion", "lastmotion",
             "lastmotiontype"}

\* One assignment device[field] = value; lastmotion reads the clock first.
ApiWrite ==
    /\ apiPc \in FieldPcs
    /\ \E t \in now..MaxTime :
          /\ t = now \/ apiPc = "lastmotion"
          /\ now' = t
          /\ heap' = Put(heap, apiDevice,
                         Put(heap[apiDevice], apiPc, Written(apiPc, apiPayload, t)))
    /\ apiPc' = AfterWrite(apiPc, msgtype_of(apiPayload), msgparam_of(apiPayload))
    /\ apiIo' = "none"
    /\ UNCHANGED <<pumpVars, feedVars, linkVars, callVars, noteVars, txQueue, channel, currentChannel,
                   discoveredDevices, deviceLock, apiPayload, apiDevice, before,
                   sighted, callers>>

\* self.deviceLock.release(), and the return to run's loop.
ApiRelease ==
    /\ apiPc = "release"
    /\ deviceLock' = "unlocked"
    /\ apiPc' = "poll"
    /\ apiPayload' = <<>>
    /\ apiDevice' = 0
    /\ apiIo' = "none"
    /\ before' = NoBefore
    /\ UNCHANGED <<pumpVars, feedVars, linkVars, callVars, noteVars, txQueue, channel, currentChannel,
                   discoveredDevices, heap, now, sighted, callers>>

(***************************************************************************)
(* The outward operations: setChannel, IDRequestAll, getDevices.           *)
(***************************************************************************)
Range(f) == {f[x] : x \in DOMAIN f}

\* A caller may start an operation when it is in none, and has calls left.
Ready(c) ==
    /\ callers[c].pc \in {"idle", "returned", "mutated"}
    /\ callers[c].calls < MaxCalls

\* The heap once the caller c has dropped the list of its last call: the
\* dicts only that list referred to are gone.
Dropped(c) ==
    LET gone == Range(callers[c].device_list) \ Range(discoveredDevices)
    IN  [r \in DOMAIN heap \ gone |-> heap[r]]

Called(c, pc, arg) == Caller(pc, arg, {}, <<>>, callers[c].calls + 1)

\* A setChannel that tunes the dongle and leaves self.currentChannel alone.
SetChannel_stale(c, ch) ==
    /\ Ready(c)
    /\ heap' = Dropped(c)
    /\ callers' = [callers EXCEPT ![c] = Called(c, "dongleSetChannel", ch)]
    /\ UNCHANGED <<pumpVars, feedVars, linkVars, callVars, noteVars, txQueue, channel,
                   currentChannel, discoveredDevices, deviceLock, now, apiVars>>

\* setChannel: self.currentChannel = channel
SetChannel(c, ch) ==
    /\ Ready(c)
    /\ currentChannel' = ch
    /\ heap' = Dropped(c)
    /\ callers' = [callers EXCEPT ![c] = Called(c, "dongleSetChannel", ch)]
    /\ UNCHANGED <<pumpVars, feedVars, linkVars, callVars, noteVars, txQueue, channel, discoveredDevices,
                   deviceLock, now, apiVars>>

\* dongleSetChannel: the Command frame [UCMD_CHANNEL, channel] is put on the
\* outbound queue, and self.channel set.
DongleSetChannel(c) ==
    /\ callers[c].pc = "dongleSetChannel"
    /\ LET buff == <<UCMD_CHANNEL, callers[c].arg>>
       IN  txQueue' = Append(txQueue, UartPacket(UMSG_CMD, Len(buff) + 2, buff))
    /\ channel' = callers[c].arg
    /\ callers' = [callers EXCEPT ![c].pc = "idle"]
    /\ UNCHANGED <<pumpVars, feedVars, linkVars, callVars, noteVars, currentChannel, registryVars, now, apiVars>>

\* rfIDRequestAll's header: type ID, parameter 0, broadcast.
IdRequestHeader == XRF_TYPE_ID * (2 ^ XRF_TYPE_SHIFT) + (0 % (XRF_PARAM_SHIFT + 1)) + 0 * 128

\* IDRequestAll: rfIDRequestAll puts the request on the outbound queue; then
\* time.sleep(5).
IDRequestAll(c, group) ==
    /\ Ready(c)
    /\ LET buff == <<3, IdRequestHeader, defaultHops, group>>
       IN  txQueue' = Append(txQueue, UartPacket(UMSG_TXPKT, Len(buff) + 2, buff))
    /\ heap' = Dropped(c)
    /\ callers' = [callers EXCEPT ![c] = Called(c, "sleep", group)]
    /\ UNCHANGED <<pumpVars, feedVars, linkVars, callVars, noteVars, channel, currentChannel, discoveredDevices,
                   deviceLock, now, apiVars>>

\* time.sleep(5) returns, and IDRequestAll calls getDevices.
Wake(c) ==
    /\ callers[c].pc = "sleep"
    /\ callers' = [callers EXCEPT ![c].pc = "acquire"]
    /\ UNCHANGED <<pumpVars, feedVars, linkVars, callVars, noteVars, txQueue, channel, currentChannel,
                   registryVars, now, apiVars>>

\* getDevices: device_list = list()
GetDevices(c) ==
    /\ Ready(c)
    /\ heap' = Dropped(c)
    /\ callers' = [callers EXCEPT ![c] = Called(c, "acquire", 0)]
    /\ UNCHANGED <<pumpVars, feedVars, linkVars, callVars, noteVars, txQueue, channel, currentChannel,
                   discoveredDevices, deviceLock, now, apiVars>>

\* self.deviceLock.acquire(); keys = self.discoveredDevices.keys()
GdAcquire(c) ==
    /\ callers[c].pc = "acquire"
    /\ CanAcquire
    /\ deviceLock' = c
    /\ callers' = [callers EXCEPT ![c].pc = "copy",
                                  ![c].keys = DOMAIN discoveredDevices]
    /\ UNCHANGED <<pumpVars, feedVars, linkVars, callVars, noteVars, txQueue, channel, currentChannel,
                   discoveredDevices, heap, now, apiVars>>

\* The result of copying a record: the heap and the copy's reference.
Copied(hp, ref) == [heap |-> hp, ref |-> ref]

\* A snapshot that hands out the registry's own dict.
snapshot_alias(hp, device, uidStr) ==
    Copied(Put(hp, device, Put(hp[device], "uid", uidStr)), device)

\* new_device = dict(); new_device['uid'] = uidStr; for key in device.keys():
\* new_device[key] = device[key]
snapshot_copy(hp, device, uidStr) ==
    LET r == NewRef(hp)
        new_device == [k \in DOMAIN hp[device] \cup {"uid"} |->
                          IF k \in DOMAIN hp[device] THEN hp[device][k] ELSE uidStr]
    IN  Copied(Put(hp, r, new_device), r)

\* One iteration of "for uidStr in keys": the record is copied and appended.
\* The order of a dict's keys is any order.  The inner loop over the fields
\* is one step: new_device is local, and device is assigned to only by
\* parseRxPacket, whose steps are separate (ApiWrite).
GdCopy(c) ==
    /\ callers[c].pc = "copy"
    /\ \E uidStr \in callers[c].keys :
          LET got == snapshot_copy(heap, discoveredDevices[uidStr], uidStr)
          IN  /\ heap' = got.heap
              /\ callers' = [callers EXCEPT
                                ![c].keys = @ \ {uidStr},
                                ![c].device_list = Append(@, got.ref)]
    /\ UNCHANGED <<pumpVars, feedVars, linkVars, callVars, noteVars, txQueue, channel, currentChannel,
                   discoveredDevices, deviceLock, now, apiVars>>

\* self.deviceLock.release(); return device_list
GdRelease(c) ==
    /\ callers[c].pc = "copy"
    /\ callers[c].keys = {}
    /\ deviceLock' = "unlocked"
    /\ callers' = [callers EXCEPT ![c].pc = "returned"]
    /\ UNCHANGED <<pumpVars, feedVars, linkVars, callVars, noteVars, txQueue, channel, currentChannel,
                   discoveredDevices, heap, now, apiVars>>

\* The caller changes a record of the list it was returned.
Mutate(c) ==
    /\ callers[c].pc = "returned"
    /\ \E i \in 1..Len(callers[c].device_list) :
          LET r == callers[c].device_list[i]
          IN  heap' = Put(heap, r, Put(heap[r], "hopcount", 99))
    /\ callers' = [callers EXCEPT ![c].pc = "mutated"]
    /\ UNCHANGED <<pumpVars, feedVars, linkVars, callVars, noteVars, txQueue, channel, currentChannel,
                   discoveredDevices, deviceLock, now, apiVars>>

(***************************************************************************)
(* The engine, the pump's read phase and the callers together.             *)
(***************************************************************************)
Init ==
    /\ state = InitFramer.state
    /\ rxPkt = InitFramer.rxPkt
    /\ rxQueue = InitFramer.rxQueue
    /\ serialIn = <<>>
    /\ fed = <<>>
    /\ cuts = {}
    /\ InitEngine
    /\ InitCall

Next ==
    \/ \E f \in DongleFrames : PumpRead(f)
    \/ ApiGet
    \/ ApiAcquire
    \/ ApiBranch
    \/ ApiWrite
    \/ ApiRelease
    \/ \E c \in Callers :
          \/ \E ch \in Channels : SetChannel(c, ch)
          \/ DongleSetChannel(c)
          \/ \E g \in Groups : IDRequestAll(c, g)
          \/ Wake(c)
          \/ GetDevices(c)
          \/ GdAcquire(c)
          \/ GdCopy(c)
          \/ GdRelease(c)
          \/ Mutate(c)

Spec == Init /\ [][Next]_vars

(***************************************************************************)
(* Claims about the dispatch loop and the registry, checked under Spec.    *)
(***************************************************************************)
\* The dispatch thread is between parseRxPacket's acquire and release.
InParse == apiPc \in {"branch", "release"} \cup FieldPcs

\* A payload shorter than the fields its message type requires.
Short(payload) ==
    \/ Len(payload) < 4
    \/ msgtype_of(payload) = XRF_TYPE_IDACK /\ Len(payload) < 14
    \/ msgtype_of(payload) = XRF_TYPE_REPORTACK /\ Len(payload) < 12

\* C1: an 'R' frame whose payload is shorter than its type requires is
\* discarded with the registry unchanged, and never ends the dispatch loop.
C1_ShortPacketDiscarded ==
    (apiPayload # <<>> /\ Short(apiPayload)) =>
        /\ apiPc # "dead"
        /\ InParse => Registry = before.vals

\* The record a packet is about.
KeyOf(payload) == HexJoin([i \in 1..8 |-> payload[4 + i]])

OthersAsBefore(key) ==
    /\ DOMAIN before.vals \subseteq DOMAIN Registry
    /\ \A k \in DOMAIN Registry \ {key} :
          k \in DOMAIN before.vals /\ Registry[k] = before.vals[k]

\* C6: the dispatch of a well-formed IDACK with identity U, hop h, group g,
\* version byte v and model code m leaves under the lowercase hex string of U
\* a record with model = name(m), group = g, hopcount = h, fwversion = v * 10
\* and channel = the current channel as it is when the field is set; no other
\* identity's record is changed.
C6_IdAckRecord ==
    [][ (apiPayload # <<>> /\ ~Short(apiPayload)
            /\ msgtype_of(apiPayload) = XRF_TYPE_IDACK) =>
          /\ (apiPc = "channel" /\ apiPc' = "fwversion") =>
                Registry'[KeyOf(apiPayload)].channel = currentChannel
          /\ (apiPc = "release" /\ apiPc' = "poll") =>
                LET rec == Registry[KeyOf(apiPayload)]
                IN  /\ rec.model = modelToString(apiPayload[14])
                    /\ rec.group = apiPayload[4]
                    /\ rec.hopcount = apiPayload[3]
                    /\ rec.fwversion = apiPayload[13] * 10
                    /\ rec.channel \in Channels
                    /\ OthersAsBefore(KeyOf(apiPayload)) ]_vars

\* C6's case: the IDACK of identity 0102030405060708 with hop 2, group 1,
\* version byte 21 and model 0 has been dispatched on channel 1.
C6_Witness ==
    /\ apiPc = "poll"
    /\ "0102030405060708" \in DOMAIN discoveredDevices
    /\ Registry["0102030405060708"] =
          [model |-> "Athena", group |-> 1, hopcount |-> 2, channel |-> 1,
           fwversion |-> 210]

MotionFields == {"lastmotion", "lastmotiontype"}

\* C7: the dispatch of a REPORTACK for an identity that has a record merges
\* into that record: group and hopcount are the packet's, lastmotion and
\* lastmotiontype are set if and only if the parameter is 0 or 1, every other
\* field keeps its value, and the record is the same object as before.
C7_ReportAckMerges ==
    (apiPc = "release" /\ msgtype_of(apiPayload) = XRF_TYPE_REPORTACK
        /\ KeyOf(apiPayload) \in DOMAIN before.vals) =>
        LET key == KeyOf(apiPayload)
            param == apiPayload[2] % 16
            old == before.vals[key]
            rec == Registry[key]
        IN  /\ discoveredDevices[key] = before.refs[key]
            /\ rec.group = apiPayload[4]
            /\ rec.hopcount = apiPayload[3]
            /\ IF param \in {0, 1}
               THEN /\ MotionFields \subseteq DOMAIN rec
                    /\ rec.lastmotion = now
                    /\ rec.lastmotiontype = (IF param = 0 THEN "simple" ELSE "fancy")
               ELSE \A f \in MotionFields :
                       /\ f \in DOMAIN rec <=> f \in DOMAIN old
                       /\ f \in DOMAIN old => rec[f] = old[f]
            /\ DOMAIN rec = DOMAIN old \cup {"group", "hopcount"}
                              \cup (IF param \in {0, 1} THEN MotionFields ELSE {})
            /\ \A f \in DOMAIN old \ ({"group", "hopcount"} \cup MotionFields) :
                  rec[f] = old[f]
            /\ OthersAsBefore(key)

\* C7's case: a "motion simple" REPORTACK was merged into the record an IDACK
\* made, which keeps its model, channel and firmware version.
C7_Witness ==
    /\ apiPc = "release"
    /\ msgtype_of(apiPayload) = XRF_TYPE_REPORTACK
    /\ KeyOf(apiPayload) \in DOMAIN before.vals
    /\ "model" \in DOMAIN before.vals[KeyOf(apiPayload)]
    /\ Registry[KeyOf(apiPayload)] =
          [model |-> "Athena", group |-> 4, hopcount |-> 3, channel |-> 1,
           fwversion |-> 210, lastmotion |-> now, lastmotiontype |-> "simple"]

\* C8: the registry starts empty; it holds a record for U only if an IDACK or
\* REPORTACK carrying U has been dispatched, and it holds one once the dispatch
\* of such a packet is over; no step removes a record.
C8_RecordIffSighted ==
    /\ discoveredDevices = EmptyDict
    /\ [](/\ DOMAIN discoveredDevices \subseteq {HexJoin(U) : U \in sighted}
          /\ apiPc \in {"poll", "dead"} =>
                DOMAIN discoveredDevices = {HexJoin(U) : U \in sighted})
    /\ [][DOMAIN discoveredDevices \subseteq DOMAIN discoveredDevices']_vars

\* C8's case: packets of two identities have been dispatched, and a caller has
\* called an outward operation.
C8_Witness ==
    /\ apiPc = "poll"
    /\ sighted = {U1, U2}
    /\ DOMAIN discoveredDevices = {"0102030405060708", "abcdef00100ff0ff"}
    /\ \E c \in Callers : callers[c].calls > 0

\* C9: a record that getDevices copies is the record as it was before the
\* packet being dispatched began to update it, or as it is with that packet's
\* update complete: never one with part of the update.
C9_NoTornRecord ==
    [][ \A c \in Callers :
          (callers[c].pc = "copy"
              /\ Len(callers'[c].device_list) = Len(callers[c].device_list) + 1) =>
             LET new_device == heap'[callers'[c].device_list[Len(callers'[c].device_list)]]
                 uidStr == new_device.uid
                 rec == Without(new_device, "uid")
             IN  IF InParse /\ apiPc # "release"
                 THEN uidStr \in DOMAIN before.vals /\ rec = before.vals[uidStr]
                 ELSE rec = Registry[uidStr] ]_vars

\* C9's case: getDevices has copied a record while the dispatch thread waits
\* for the lock with a packet that updates the registry.
C9_Witness ==
    /\ apiPc = "acquire"
    /\ IsRegistryPacket(apiPayload)
    /\ \E c \in Callers :
          /\ callers[c].pc = "copy"
          /\ deviceLock = c
          /\ callers[c].device_list # <<>>

\* The records of the list the caller c was returned.
Returned(c) ==
    [i \in 1..Len(callers[c].device_list) |-> heap[callers[c].device_list[i]]]

\* C10: no step of another thread changes the records of a list getDevices
\* has returned, and a caller's change to a returned record does not change
\* the registry.
C10_SnapshotIndependent ==
    [][ \A c \in Callers :
          /\ (callers[c].pc = "returned" /\ callers'[c].pc = "returned") =>
                Returned(c)' = Returned(c)
          /\ (callers[c].pc = "returned" /\ callers'[c].pc = "mutated") =>
                Registry' = Registry ]_vars

\* C10's case: after getDevices returned a record, the registry's record of
\* that identity was updated.
C10_Witness ==
    \E c \in Callers :
        /\ callers[c].pc = "returned"
        /\ \E i \in 1..Len(callers[c].device_list) :
              LET new_device == heap[callers[c].device_list[i]]
              IN  Without(new_device, "uid") # Registry[new_device.uid]


(***************************************************************************)
(* The radio packets XrfCommsThread builds for transmission.               *)
(***************************************************************************)
\* Python's None as the uid or the values of a call: no sequence of bytes.
PyNone == <<-1>>

\* a & b and a | b on naturals.
RECURSIVE BitAnd(_, _)
BitAnd(a, b) ==
    IF a = 0 \/ b = 0 THEN 0
    ELSE (a % 2) * (b % 2) + 2 * BitAnd(a \div 2, b \div 2)

RECURSIVE BitOr(_, _)
BitOr(a, b) ==
    IF a = 0 THEN b
    ELSE IF b = 0 THEN a
    ELSE (IF a % 2 = 1 \/ b % 2 = 1 THEN 1 ELSE 0) + 2 * BitOr(a \div 2, b \div 2)

\* header = pkttype << XRF_TYPE_SHIFT; header |= param & XRF_PARAM_SHIFT;
\* header |= unicast << 7
header_of(pkttype, param, unicast) ==
    BitOr(BitOr(pkttype * (2 ^ XRF_TYPE_SHIFT), BitAnd(param, XRF_PARAM_SHIFT)),
          unicast * (2 ^ 7))

\* The frame every rf* method wraps its buff in.
tx_packet(buff) == UartPacket(UMSG_TXPKT, Len(buff) + 2, buff)

\* The frame dongleSetChannel(channel) puts on txQueue.
dongleSetChannel(ch) ==
    LET buff == <<UCMD_CHANNEL, ch>>
    IN  UartPacket(UMSG_CMD, Len(buff) + 2, buff)

\* The frame rfIDRequestAll(group) puts on txQueue.
rfIDRequestAll(group) ==
    LET header == header_of(XRF_TYPE_ID, 0, 0)
    IN  tx_packet(<<3, header, defaultHops, group>>)

\* The frame rfGetParameter(param, group, uid) puts on txQueue.
rfGetParameter(param, group, uid) ==
    LET unicast == IF uid # PyNone THEN 1 ELSE 0
        header == header_of(XRF_TYPE_GET, param, unicast)
        buff == <<0, header, defaultHops>>
                    \o (IF uid # PyNone THEN uid ELSE <<group>>)
    IN  tx_packet([buff EXCEPT ![1] = Len(buff) - 1])

\* An rfSetParameter that sets the size byte before the values are appended.
rfSetParameter_early_size(param, group, uid, values) ==
    LET unicast == IF uid # PyNone THEN 1 ELSE 0
        header == header_of(XRF_TYPE_SET, param, unicast)
        buff == <<0, header, defaultHops>>
                    \o (IF uid # PyNone THEN uid ELSE <<group>>)
        sized == [buff EXCEPT ![1] = Len(buff) - 1]
    IN  tx_packet(sized \o (IF values # PyNone THEN values ELSE <<>>))

\* The frame rfSetParameter(param, group, uid, values) puts on txQueue.
rfSetParameter(param, group, uid, values) ==
    LET unicast == IF uid # PyNone THEN 1 ELSE 0
        header == header_of(XRF_TYPE_SET, param, unicast)
        buff == <<0, header, defaultHops>>
                    \o (IF uid # PyNone THEN uid ELSE <<group>>)
                    \o (IF values # PyNone THEN values ELSE <<>>)
    IN  tx_packet([buff EXCEPT ![1] = Len(buff) - 1])

\* rfSetPWMLevel and rfGetPWMLevel.
rfSetPWMLevel(group, uid, pwmLevels) ==
    rfSetParameter(XRF_PARAM_IPWM, group, uid, pwmLevels)

rfGetPWMLevel(group, uid) ==
    rfGetParameter(XRF_PARAM_IPWM, group, uid)


(***************************************************************************)
(* The serial link: XrfCommsThread.run pumping bytes in and frames out,    *)
(* callers putting frames on txQueue, and XrfAPI.run taking frames off     *)
(* rxQueue.                                                                *)
(***************************************************************************)
MaxWire == 6
MaxSent == 2

\* self.serial.read(256)
ReadSize == 256

\* The bytes the dongle sends: a tag, and a byte that is a length or a payload.
WireBytes == {UMSG_LOG, 3}

\* The calls that put a frame on txQueue.
LinkCalls ==
    {dongleSetChannel(2), rfIDRequestAll(255),
     rfGetParameter(XRF_PARAM_IPWM, 255, PyNone),
     rfSetParameter(XRF_PARAM_IPWM, 0, U1, <<9>>)}

linkQuiet == <<received, cuts, currentChannel, registryVars, now, apiVars, callers,
               callVars, noteVars>>

\* The dongle puts the byte b on the link.
Arrive(b) ==
    /\ Len(fed) + Len(serialIn) < MaxWire
    /\ serialIn' = Append(serialIn, b)
    /\ UNCHANGED <<framerVars, fed, txQueue, channel, linkVars, linkQuiet>>

\* while self.serial.inWaiting() > 0: outside the try, so an exception raised
\* by inWaiting ends the thread.
PumpInWaiting(fails) ==
    /\ pumpPc = "inWaiting"
    /\ pumpPc' = IF fails THEN "dead"
                 ELSE IF Len(serialIn) > 0 THEN "read" ELSE "txEmpty"
    /\ UNCHANGED <<framerVars, feedVars, txQueue, channel, serialOut, enqueued,
                   dispatched, pumpPkt, phase, linkQuiet>>

\* The bytes serial.read(256) returns: those waiting, 256 at most.
ReadBuffer == Take(serialIn, IF Len(serialIn) < ReadSize THEN Len(serialIn) ELSE ReadSize)

\* try: buff = self.serial.read(256); self.parse_buff(buff); except: pass
ReadBuff(fails) ==
    /\ pumpPc = "read"
    /\ pumpPc' = "inWaiting"
    /\ IF fails
       THEN UNCHANGED <<framerVars, serialIn>>
       ELSE LET buff == ReadBuffer
                fr == parse_buff(Framer(state, rxPkt, rxQueue), buff)
            IN  /\ state' = fr.state
                /\ rxPkt' = fr.rxPkt
                /\ rxQueue' = fr.rxQueue
                /\ serialIn' = Drop(serialIn, Len(buff))
    /\ UNCHANGED <<txQueue, channel, serialOut, enqueued, dispatched, pumpPkt, phase,
                   linkQuiet>>

\* The read, with the bytes it returned noted in fed.
PumpReadBuff(fails) ==
    /\ ReadBuff(fails)
    /\ fed' = IF fails THEN fed ELSE fed \o ReadBuffer

\* while not self.txQueue.empty():
PumpTxEmpty ==
    /\ pumpPc = "txEmpty"
    /\ pumpPc' = IF txQueue # <<>> THEN "get" ELSE "inWaiting"
    /\ phase' = IF txQueue # <<>> THEN phase ELSE "start"
    /\ UNCHANGED <<framerVars, feedVars, txQueue, channel, serialOut, enqueued,
                   dispatched, pumpPkt, linkQuiet>>

\* pkt = self.txQueue.get()
PumpGet ==
    /\ pumpPc = "get"
    /\ txQueue # <<>>
    /\ pumpPkt' = Queue_get(txQueue).item
    /\ txQueue' = Queue_get(txQueue).queue
    /\ pumpPc' = "write"
    /\ UNCHANGED <<framerVars, feedVars, channel, serialOut, enqueued, dispatched,
                   phase, linkQuiet>>

\* self.transmit_packet(pkt): outside any try, so an exception raised by
\* serial.write ends the thread.
PumpWrite(fails) ==
    /\ pumpPc = "write"
    /\ IF fails
       THEN /\ pumpPc' = "dead"
            /\ UNCHANGED <<serialOut, phase>>
       ELSE /\ pumpPc' = "written"
            /\ serialOut' = serialOut \o transmit_packet(pumpPkt)
            /\ phase' = "written"
    /\ UNCHANGED <<framerVars, feedVars, txQueue, channel, enqueued, dispatched,
                   pumpPkt, linkQuiet>>

\* if not self.txQueue.empty():
PumpWritten ==
    /\ pumpPc = "written"
    /\ pumpPc' = IF txQueue # <<>> THEN "sleep" ELSE "txEmpty"
    /\ UNCHANGED <<framerVars, feedVars, txQueue, channel, serialOut, enqueued,
                   dispatched, pumpPkt, phase, linkQuiet>>

\* time.sleep(0.1)
PumpSleep ==
    /\ pumpPc = "sleep"
    /\ pumpPc' = "txEmpty"
    /\ phase' = "paced"
    /\ UNCHANGED <<framerVars, feedVars, txQueue, channel, serialOut, enqueued,
                   dispatched, pumpPkt, linkQuiet>>

\* A caller's thread puts the frame pkt on txQueue; dongleSetChannel then
\* sets self.channel.
Enqueue(pkt) ==
    /\ Len(enqueued) < MaxSent
    /\ txQueue' = Append(txQueue, pkt)
    /\ enqueued' = Append(enqueued, pkt)
    /\ channel' = IF pkt.type = UMSG_CMD THEN Byte(pkt.payload, 1) ELSE channel
    /\ UNCHANGED <<framerVars, feedVars, serialOut, dispatched, pumpPc, pumpPkt, phase,
                   linkQuiet>>

\* XrfAPI.run takes a frame off rxQueue.
LinkDispatch ==
    /\ Dispatch
    /\ dispatched' = Append(dispatched, Queue_get(rxQueue).item)

NextLink ==
    \/ \E b \in WireBytes : Arrive(b)
    \/ \E fails \in BOOLEAN : PumpInWaiting(fails)
    \/ \E fails \in BOOLEAN : PumpReadBuff(fails)
    \/ PumpTxEmpty
    \/ PumpGet
    \/ \E fails \in BOOLEAN : PumpWrite(fails)
    \/ PumpWritten
    \/ PumpSleep
    \/ \E pkt \in LinkCalls : Enqueue(pkt)
    \/ LinkDispatch

SpecLink == Init /\ [][NextLink]_vars


(***************************************************************************)
(* Claims about the serial link.                                           *)
(***************************************************************************)
\* C11: the frames the dispatch loop has taken, followed by the frames still
\* on the inbound queue, are the frames completed on the wire, in the order
\* of their last bytes: a frame completed earlier is dispatched earlier.
C11_DispatchInWireOrder ==
    dispatched \o rxQueue = parse_loop(InitFramer, fed).rxQueue

\* Two different frames have been dispatched.
C11_Witness ==
    dispatched = <<UartPacket(UMSG_LOG, 3, <<UMSG_LOG>>),
                   UartPacket(UMSG_LOG, 3, <<3>>)>>

\* The bytes of a list of frames: for each, tag byte, length byte, payload.
RECURSIVE Wire(_)
Wire(frames) ==
    IF frames = <<>> THEN <<>>
    ELSE <<Head(frames).type, Head(frames).length>> \o Head(frames).payload
             \o Wire(Tail(frames))

\* The number of frames the pump has taken off txQueue.
Got == Len(enqueued) - Len(txQueue)

\* C12: whatever the interleaving of the callers with the pump, the bytes
\* written to the link are those of the frames enqueued, in the order of
\* their enqueueing, each once and whole (tag, length, payload): the frames
\* not yet taken are the rest of that order, and the frame in the pump's hand
\* is the next to write.
C12_WrittenInEnqueueOrder ==
    /\ Got >= 0
    /\ txQueue = Drop(enqueued, Got)
    /\ pumpPc = "write" => pumpPkt = enqueued[Got]
    /\ pumpPc = "write" => serialOut = Wire(Take(enqueued, Got - 1))
    /\ pumpPc \notin {"write", "dead"} => serialOut = Wire(Take(enqueued, Got))
    /\ pumpPc = "dead" =>
          \E w \in {Got - 1, Got} : w >= 0 /\ serialOut = Wire(Take(enqueued, w))

\* Two different frames were enqueued, and both are written.
C12_Witness ==
    /\ Len(enqueued) = 2
    /\ enqueued[1] # enqueued[2]
    /\ serialOut = Wire(enqueued)
    /\ pumpPc # "dead"

\* C13: a serial failure in the pump loop, whether raised by inWaiting, read,
\* parse_buff or write, is caught and does not end the pump thread.
C13_FailureDoesNotEndPump ==
    pumpPc # "dead"


(***************************************************************************)
(* The packet builders applied to their arguments, and parseRxPacket's     *)
(* split of the header applied to what they built.                         *)
(***************************************************************************)
MaxValues == 4

Bytes == 0..255
Params == 0..XRF_PARAM_SHIFT

\* Parameters of the calls with an identity or with values: the motion and
\* PWM parameters, the largest one, and one beyond the header's four bits.
ParamSamples == {XRF_PARAM_MOTIONSIMPLE, XRF_PARAM_IPWM, XRF_PARAM_SHIFT, 21}

Request(op, param, group, uid, values) ==
    [op |-> op, param |-> param, group |-> group, uid |-> uid, values |-> values]

Requests ==
    {Request("rfIDRequestAll", 0, g, PyNone, PyNone) : g \in Bytes}
    \cup {Request("rfGetParameter", p, g, PyNone, PyNone) : p \in Params, g \in Bytes}
    \cup {Request("rfGetParameter", p, g, u, PyNone) :
              p \in ParamSamples, g \in {0, 255}, u \in {U1, U2}}
    \cup {Request("rfSetParameter", p, g, u, v) :
              p \in ParamSamples, g \in {0, 255}, u \in {PyNone, U1, U2},
              v \in {PyNone} \cup SeqsUpTo({0, 255}, MaxValues)}

InitCodec ==
    /\ state = InitFramer.state
    /\ rxPkt = InitFramer.rxPkt
    /\ rxQueue = InitFramer.rxQueue
    /\ serialIn = <<>>
    /\ fed = <<>>
    /\ cuts = {}
    /\ InitEngine
    /\ request \in Requests
    /\ result = None

\* The frame the call puts on txQueue.
Built(r) ==
    CASE r.op = "rfIDRequestAll" -> rfIDRequestAll(r.group)
      [] r.op = "rfGetParameter" -> rfGetParameter(r.param, r.group, r.uid)
      [] r.op = "rfSetParameter" -> rfSetParameter(r.param, r.group, r.uid, r.values)

\* The call: self.txQueue.put(uart_pkt)
Call ==
    /\ enqueued = <<>>
    /\ txQueue' = Append(txQueue, Built(request))
    /\ enqueued' = Append(enqueued, Built(request))
    /\ UNCHANGED <<framerVars, feedVars, channel, serialOut, dispatched, pumpPc,
                   pumpPkt, phase, linkQuiet>>

\* unicast = msgheader | 0x80
unicast_of(payload) == BitOr(Byte(payload, 1), 128)

\* parseRxPacket's split of a packet's first four bytes.
Split(payload) ==
    [length |-> Byte(payload, 0), unicast |-> unicast_of(payload),
     msgtype |-> msgtype_of(payload), msgparam |-> msgparam_of(payload),
     hopcount |-> hopcount_of(payload), group |-> group_of(payload)]

\* The packet that was built, split as parseRxPacket splits one.
Decode ==
    /\ txQueue # <<>>
    /\ result = None
    /\ result' = Split(Head(txQueue).payload)
    /\ UNCHANGED <<framerVars, feedVars, txQueue, channel, linkVars, received, cuts,
                   currentChannel, registryVars, now, apiVars, callers, request,
                   noteVars>>

NextCodec ==
    \/ Call
    \/ Decode

SpecCodec == InitCodec /\ [][NextCodec]_vars

\* C14: the packet rfGetParameter(p, g, None) builds, split as parseRxPacket
\* splits a packet, gives unicast false, type GET, parameter p and group g,
\* for every p in 0..15 and g in 0..255.
C14_GetRoundTrip ==
    (result # None /\ request.op = "rfGetParameter" /\ request.uid = PyNone
        /\ request.param \in Params)
    => /\ result.unicast = 0
       /\ result.msgtype = XRF_TYPE_GET
       /\ result.msgparam = request.param
       /\ result.group = request.group

\* The number of bytes of an argument that may be None.
Count(bytes) == IF bytes = PyNone THEN 0 ELSE Len(bytes)

\* C15: in every frame rfIDRequestAll, rfGetParameter and rfSetParameter
\* enqueue, the leading size byte is the number of bytes after it (2 + the
\* address + the values), the unicast bit is set exactly for an identity
\* target, the type field is ID, GET or SET, and the frame's length is
\* 2 + the payload's.
C15_BuiltPacketShape ==
    \A i \in 1..Len(txQueue) :
        LET pkt == txQueue[i]
            payload == pkt.payload
            address == IF request.uid = PyNone THEN 1 ELSE Len(request.uid)
        IN  /\ payload[1] = Len(payload) - 1
            /\ payload[1] = 2 + address + Count(request.values)
            /\ payload[2] \div 128 = (IF request.uid = PyNone THEN 0 ELSE 1)
            /\ (payload[2] % 128) \div 16 =
                  (CASE request.op = "rfIDRequestAll" -> 0
                     [] request.op = "rfGetParameter" -> 2
                     [] request.op = "rfSetParameter" -> 4)
            /\ pkt.type = UMSG_TXPKT
            /\ pkt.length = 2 + Len(payload)

\* A set-parameter frame for an identity, with four value bytes.
C15_Witness ==
    /\ txQueue # <<>>
    /\ request.op = "rfSetParameter"
    /\ request.uid = U1
    /\ request.values = <<0, 255, 255, 0>>


(***************************************************************************)
(* Claims about the outward operations.                                    *)
(***************************************************************************)
\* C16: setChannel(c) makes c the current channel and puts exactly one
\* Command frame with payload [2, c] on the outbound queue, changing no
\* record of the registry; and an IDACK whose channel field is set after the
\* call, before another call, records the channel c.
C16_SetChannelEffect ==
    [][ /\ \A c \in Callers :
           /\ (callers[c].pc # "dongleSetChannel"
                  /\ callers'[c].pc = "dongleSetChannel") =>
                 /\ currentChannel' = callers'[c].arg
                 /\ txQueue' = txQueue
                 /\ Registry' = Registry
           /\ (callers[c].pc = "dongleSetChannel"
                  /\ callers'[c].pc # "dongleSetChannel") =>
                 /\ txQueue' = Append(txQueue, [type |-> 67, length |-> 4,
                                                payload |-> <<2, callers[c].arg>>])
                 /\ currentChannel' = callers[c].arg
                 /\ Registry' = Registry
        /\ (apiPc = "channel" /\ apiPc' = "fwversion" /\ channel # 0
               /\ \A c \in Callers : callers[c].pc # "dongleSetChannel") =>
              Registry'[KeyOf(apiPayload)].channel = channel ]_vars

\* setChannel(2) has returned, and an IDACK dispatched since is recorded with
\* channel 2.
C16_Witness ==
    /\ apiPc = "poll"
    /\ currentChannel = 2
    /\ txQueue = <<[type |-> 67, length |-> 4, payload |-> <<2, 2>>]>>
    /\ \A c \in Callers : callers[c].pc = "idle"
    /\ "0102030405060708" \in DOMAIN discoveredDevices
    /\ "channel" \in DOMAIN Registry["0102030405060708"]
    /\ Registry["0102030405060708"].channel = 2


\* C17: IDRequestAll(group) puts exactly one broadcast ID request on the
\* outbound queue, waits, and then always returns a snapshot, whatever frames
\* the dispatch loop processed meanwhile: it is never left waiting for a lock
\* that no thread will release, and with an empty registry it returns the
\* empty list.
C17_IdRequestAlwaysReturns ==
    \A c \in Callers :
        callers[c].arg \in Groups =>
            /\ callers[c].pc = "sleep" =>
                  /\ txQueue # <<>>
                  /\ txQueue[Len(txQueue)] =
                        [type |-> 84, length |-> 6,
                         payload |-> <<3, 0, 0, callers[c].arg>>]
            /\ callers[c].pc = "acquire" =>
                  ~(deviceLock = "XrfAPI" /\ apiPc = "dead")
            /\ (callers[c].pc = "returned" /\ discoveredDevices = EmptyDict) =>
                  callers[c].device_list = <<>>


(***************************************************************************)
(* The PWM request handlers of xrf-api.py: device_setpwm and device_getpwm *)
(* take a snapshot with getDevices, look the identity up in it, and call   *)
(* XrfAPI.getInstance().setPWMLevels / getPWMLevels.                       *)
(***************************************************************************)
\* The attributes class XrfAPI defines; threading.Thread adds none of the
\* names the handlers call.
XrfAPIMethods ==
    {"getInstance", "__init__", "run", "typeToName", "paramToName",
     "modelToString", "parseRxPacket", "setChannel", "IDRequestAll", "getDevices"}

\* The method a handler calls on the XrfAPI instance.
MethodOf(op) == IF op = "device_setpwm" THEN "setPWMLevels" ELSE "getPWMLevels"

\* The requests: the route's uid is a non-empty string, here the identity of
\* a device that may answer and one that never does.
HttpRequests ==
    [op : {"device_setpwm", "device_getpwm"},
     uid : {"0102030405060708", "ffffffffffffffff"},
     levels : {<<255, 255, 255, 255>>, <<0, 128, 255, 1>>}]

\* The frames the dongle sends while the request is served.
HttpFrames == {Frame(UMSG_RXPKT, IdAck(U1, 2, 1, 21, 0))}

InitHttp ==
    /\ state = InitFramer.state
    /\ rxPkt = InitFramer.rxPkt
    /\ rxQueue = InitFramer.rxQueue
    /\ serialIn = <<>>
    /\ fed = <<>>
    /\ cuts = {}
    /\ InitEngine
    /\ request \in HttpRequests
    /\ result = None

\* An HTTP response.
Response(status, body) == [status |-> status, body |-> body]

\* The handler after getDevices returned: abort(404) if no device of the
\* snapshot has the uid; otherwise the attribute lookup of setPWMLevels /
\* getPWMLevels on the XrfAPI instance, which raises AttributeError before
\* any frame is built: the response is a 500.
HttpFinish(c) ==
    /\ callers[c].pc = "returned"
    /\ result = None
    /\ LET devices == Returned(c)
           device == {i \in DOMAIN devices : devices[i].uid = request.uid}
       IN  result' = IF device = {} THEN Response(404, "Not found")
                     ELSE IF MethodOf(request.op) \notin XrfAPIMethods
                     THEN Response(500, "AttributeError")
                     ELSE Response(200, "success")
    /\ callers' = [callers EXCEPT ![c].pc = "idle"]
    /\ UNCHANGED <<pumpVars, feedVars, linkVars, txQueue, channel, currentChannel,
                   registryVars, now, apiVars, request, noteVars>>

NextHttp ==
    \/ \E f \in HttpFrames : PumpRead(f)
    \/ ApiGet
    \/ ApiAcquire
    \/ ApiBranch
    \/ ApiWrite
    \/ ApiRelease
    \/ \E c \in Callers :
          \/ GetDevices(c)
          \/ GdAcquire(c)
          \/ GdCopy(c)
          \/ GdRelease(c)
          \/ HttpFinish(c)

SpecHttp == InitHttp /\ [][NextHttp]_vars

\* The request has been answered, and its identity was in the snapshot.
Served ==
    /\ result # None
    /\ \E c \in Callers : \E i \in DOMAIN Returned(c) :
          Returned(c)[i].uid = request.uid

\* C18: a set-PWM request for an identity of the registry puts exactly one
\* unicast SET packet for parameter 5, addressed to the 8-byte identity and
\* carrying the four level bytes, on the outbound queue and reports success;
\* a get-PWM request puts exactly one unicast GET packet for parameter 5.
C18_PwmRequestEnqueues ==
    Served =>
        /\ request.op = "device_setpwm" =>
              /\ result.status = 200
              /\ txQueue = <<[type |-> 84, length |-> 17,
                              payload |-> <<14, 197, 0>> \o U1 \o request.levels]>>
        /\ request.op = "device_getpwm" =>
              txQueue = <<[type |-> 84, length |-> 13,
                           payload |-> <<10, 165, 0>> \o U1]>>


(***************************************************************************)
(* A get-parameter request and the radio's reply.                          *)
(***************************************************************************)
\* A GETACK packet: the header with type 3, the answering identity and the
\* parameter's value; unicast sets the header's bit 7.
GetAck(uid, param, unicast, hop, group, value) ==
    <<Len(uid \o value) + 3, unicast * 128 + XRF_TYPE_GETACK * 16 + param, hop, group>>
        \o uid \o value

IsGetAck(payload) == Len(payload) >= HeaderBytes /\ msgtype_of(payload) = XRF_TYPE_GETACK

\* The frames the dongle sends: the IDACK of a device, and its replies to a
\* request for the PWM levels.
ReplyFrames ==
    {Frame(UMSG_RXPKT, IdAck(U1, 2, 1, 21, 0)),
     Frame(UMSG_RXPKT, GetAck(U1, XRF_PARAM_IPWM, 1, 2, 1, <<10, 20, 30, 40>>)),
     Frame(UMSG_RXPKT, GetAck(U1, XRF_PARAM_IPWM, 0, 2, 1, <<10, 20, 30, 40>>))}

\* The dongle sends a frame; a GETACK only once a request was made.
Reply(f) ==
    /\ IsGetAck(f.payload) => txQueue # <<>>
    /\ PumpRead(f)

\* A caller's thread calls rfGetPWMLevel(group, uid), that is
\* rfGetParameter(XRF_PARAM_IPWM, group, uid), which returns no value.
GetPWMLevel(c, group, uid) ==
    /\ callers[c].pc \in {"idle", "returned"}
    /\ Len(txQueue) < MaxSent
    /\ txQueue' = Append(txQueue, rfGetPWMLevel(group, uid))
    /\ UNCHANGED <<pumpVars, feedVars, linkVars, callVars, noteVars, channel, currentChannel,
                   registryVars, now, apiVars, callers>>

NextReply ==
    \/ \E f \in ReplyFrames : Reply(f)
    \/ ApiGet
    \/ ApiAcquire
    \/ ApiBranch
    \/ ApiWrite
    \/ ApiRelease
    \/ \E c \in Callers :
          \/ GetPWMLevel(c, 0, U1)
          \/ GetDevices(c)
          \/ GdAcquire(c)
          \/ GdCopy(c)
          \/ GdRelease(c)

SpecReply == Init /\ [][NextReply]_vars

\* The dispatch thread is at the end of parseRxPacket, with a GETACK.
GetAckDone ==
    /\ apiPc = "release"
    /\ Len(apiPayload) >= 4
    /\ (apiPayload[2] % 128) \div 16 = 3

\* The fields IDACK and REPORTACK packets set.
RecordFields ==
    {"model", "group", "hopcount", "channel", "fwversion", "lastmotion",
     "lastmotiontype"}

C20_LockFreeOutsideParse ==
    ~InParse => deviceLock # "XrfAPI"


\* C21: in one run of the pump's write loop a pacing delay lies between any
\* two writes, whatever the interleaving of the callers' enqueues with the
\* loop's two emptiness checks, and no delay precedes the loop's first write:
\* the pump never writes straight after a write, and sleeps only after one.
C21_PacedBetweenWrites ==
    /\ pumpPc = "write" => phase # "written"
    /\ pumpPc = "sleep" => phase = "written"


\* C22: while the dispatch thread holds the registry lock (inside
\* parseRxPacket) it only changes registry fields: it makes no output, neither
\* logging nor printing.  (getDevices makes none under the lock: its steps
\* GdAcquire, GdCopy and GdRelease only copy.)
C22_NoOutputUnderLock ==
    deviceLock = "XrfAPI" => apiIo = "none"


(***************************************************************************)
(* setChannel against the frames waiting on the two queues.                *)
(***************************************************************************)
\* Two clients of the engine, each good for MaxCalls calls; one may call
\* after the other has returned, or while it is still in its call.
Clients == {"caller", "other"}

\* The state after XrfAPI.__init__, with the two clients idle.
InitClients ==
    /\ state = InitFramer.state
    /\ rxPkt = InitFramer.rxPkt
    /\ rxQueue = InitFramer.rxQueue
    /\ serialIn = <<>>
    /\ fed = <<>>
    /\ cuts = {}
    /\ received = 0
    /\ txQueue = <<>>
    /\ channel = 0
    /\ currentChannel = 1
    /\ discoveredDevices = EmptyDict
    /\ heap = EmptyDict
    /\ deviceLock = "unlocked"
    /\ now = 0
    /\ apiPc = "poll"
    /\ apiPayload = <<>>
    /\ apiDevice = 0
    /\ apiIo = "none"
    /\ callers = [c \in Clients |-> Caller("idle", 0, {}, <<>>, 0)]
    /\ before = NoBefore
    /\ sighted = {}
    /\ serialOut = <<>>
    /\ enqueued = <<>>
    /\ dispatched = <<>>
    /\ pumpPc = "inWaiting"
    /\ pumpPkt = None
    /\ phase = "start"
    /\ heard = EmptyDict
    /\ sweeps = <<>>
    /\ InitCall

\* The frames in the bytes written to the link: transmit_packet writes the
\* tag, the length (the payload's plus 2) and the payload.
RECURSIVE SentFrames(_)
SentFrames(bytes) ==
    IF Len(bytes) < 2 \/ bytes[2] < 2 \/ Len(bytes) < bytes[2]
    THEN <<>>
    ELSE <<UartPacket(bytes[1], bytes[2], SubSeq(bytes, 3, bytes[2]))>>
         \o SentFrames(Drop(bytes, bytes[2]))

IsSetChannel(pkt) ==
    pkt.type = UMSG_CMD /\ Len(pkt.payload) = 2 /\ Byte(pkt.payload, 0) = UCMD_CHANNEL

\* The channel the radio is on: that of the last set-channel command written
\* to the link, 0 as long as the gateway has written none (the dongle is then
\* on a channel of its own choosing).
Tuned ==
    LET sent == SentFrames(serialOut)
        cmds == {i \in DOMAIN sent : IsSetChannel(sent[i])}
    IN  IF cmds = {} THEN 0
        ELSE Byte(sent[CHOOSE i \in cmds : \A j \in cmds : j <= i].payload, 1)

\* The IDACKs the fixtures answer with.
TuneFrames == {Frame(UMSG_RXPKT, IdAck(U1, 2, 1, 21, 0))}

\* A fixture's IDACK comes in on the link, the radio being on channel Tuned.
Hear(f) ==
    /\ received < MaxFrames
    /\ received' = received + 1
    /\ serialIn' = serialIn \o transmit_packet(f)
    /\ heard' = Put(heard, KeyOf(f.payload), Tuned)
    /\ UNCHANGED <<framerVars, fed, cuts, txQueue, channel, currentChannel, registryVars,
                   now, apiVars, callers, linkVars, callVars, sweeps>>

NextTune ==
    \/ \E f \in TuneFrames : Hear(f)
    \/ PumpInWaiting(FALSE)
    \/ PumpReadBuff(FALSE)
    \/ PumpTxEmpty
    \/ PumpGet
    \/ PumpWrite(FALSE)
    \/ PumpWritten
    \/ PumpSleep
    \/ ApiGet
    \/ ApiAcquire
    \/ ApiBranch
    \/ ApiWrite
    \/ ApiRelease
    \/ \E c \in Clients :
          \/ \E ch \in Channels : SetChannel(c, ch)
          \/ DongleSetChannel(c)

SpecTune == InitClients /\ [][NextTune]_vars

\* Every IDACK that came in has been framed and dispatched.
AllHeardDispatched ==
    /\ serialIn = <<>>
    /\ state = XRF_IDLE
    /\ rxQueue = <<>>
    /\ apiPc = "poll"

\* C23: once every IDACK that came in on the link has been dispatched, the
\* channel field of a device's record is the channel the radio was on when
\* the device's latest IDACK came in, whatever setChannel calls ran meanwhile.
C23_ChannelWhenHeard ==
    AllHeardDispatched =>
        \A k \in DOMAIN heard :
            (heard[k] # 0 /\ k \in DOMAIN Registry /\ "channel" \in DOMAIN Registry[k])
                => Registry[k].channel = heard[k]


(***************************************************************************)
(* Discovery sweeps (discover_devices) against each other.                 *)
(***************************************************************************)
\* discover_devices(channel) calls setChannel(channel), whose first statement
\* is self.currentChannel = channel.
Discover(c, ch) ==
    /\ Ready(c)
    /\ currentChannel' = ch
    /\ heap' = Dropped(c)
    /\ callers' = [callers EXCEPT ![c] = Called(c, "discover.dongleSetChannel", ch)]
    /\ UNCHANGED <<pumpVars, feedVars, linkVars, callVars, noteVars, txQueue, channel,
                   discoveredDevices, deviceLock, now, apiVars>>

\* setChannel's dongleSetChannel: the Command frame goes on the outbound
\* queue, self.channel is set, and setChannel returns to discover_devices.
DiscoverSetChannel(c) ==
    /\ callers[c].pc = "discover.dongleSetChannel"
    /\ txQueue' = Append(txQueue, dongleSetChannel(callers[c].arg))
    /\ channel' = callers[c].arg
    /\ callers' = [callers EXCEPT ![c].pc = "discover.IDRequestAll"]
    /\ UNCHANGED <<pumpVars, feedVars, linkVars, callVars, noteVars, currentChannel,
                   registryVars, now, apiVars>>

\* IDRequestAll(0xFF): rfIDRequestAll puts the request on the outbound queue;
\* then time.sleep(5), getDevices (Wake, GdAcquire, GdCopy, GdRelease).
DiscoverIDRequestAll(c) ==
    /\ callers[c].pc = "discover.IDRequestAll"
    /\ txQueue' = Append(txQueue, rfIDRequestAll(255))
    /\ sweeps' = Append(sweeps, callers[c].arg)
    /\ callers' = [callers EXCEPT ![c].pc = "sleep"]
    /\ UNCHANGED <<pumpVars, feedVars, linkVars, callVars, heard, channel, currentChannel,
                   registryVars, now, apiVars>>

NextSweep ==
    \/ \E f \in TuneFrames : Hear(f)
    \/ PumpInWaiting(FALSE)
    \/ PumpReadBuff(FALSE)
    \/ PumpTxEmpty
    \/ PumpGet
    \/ PumpWrite(FALSE)
    \/ PumpWritten
    \/ PumpSleep
    \/ ApiGet
    \/ ApiAcquire
    \/ ApiBranch
    \/ ApiWrite
    \/ ApiRelease
    \/ \E c \in Clients :
          \/ \E ch \in Channels : Discover(c, ch)
          \/ DiscoverSetChannel(c)
          \/ DiscoverIDRequestAll(c)
          \/ Wake(c)
          \/ GdAcquire(c)
          \/ GdCopy(c)
          \/ GdRelease(c)

SpecSweep == InitClients /\ [][NextSweep]_vars

\* The channel of the last set-channel command among the first n frames
\* written to the link, 0 if there is none.
TunedAfter(sent, n) ==
    LET cmds == {j \in 1..n : IsSetChannel(sent[j])}
    IN  IF cmds = {} THEN 0
        ELSE Byte(sent[CHOOSE j \in cmds : \A m \in cmds : m <= j].payload, 1)

\* C24: the k-th identification request written to the link, which is the
\* k-th sweep's, has the set-channel command of that sweep's channel as the
\* last set-channel command written before it.
C24_SweepOnOwnChannel ==
    LET sent == SentFrames(serialOut)
    IN  \A i \in DOMAIN sent :
            sent[i].type = UMSG_TXPKT =>
                LET k == Cardinality({j \in 1..i : sent[j].type = UMSG_TXPKT})
                IN  TunedAfter(sent, i - 1) = sweeps[k]


(***************************************************************************)
(* The frames the dispatch loop has no registry update for.                *)
(***************************************************************************)
\* The payloads of the 'R' frames of the six other message types, with and
\* without a value, and two that end before the group byte.
OtherPayloads ==
    {RadioPacket(t, XRF_PARAM_LIGHT, 2, 1, rest) :
        t \in {XRF_TYPE_ID, XRF_TYPE_GET, XRF_TYPE_GETACK, XRF_TYPE_SET,
               XRF_TYPE_SETACK, XRF_TYPE_REPORT},
        rest \in {<<>>, U1 \o <<7>>}}
    \cup {Take(RadioPacket(XRF_TYPE_GET, XRF_PARAM_LIGHT, 2, 1, <<>>), 3),
          Take(RadioPacket(XRF_TYPE_ID, 0, 0, 255, <<>>), 2)}

\* The frames the dongle sends: the IDACK of a device, 'R' frames of the
\* other types, log lines that are and are not ASCII, and the echoes of an
\* outbound packet and of a command.
OtherFrames ==
    {Frame(UMSG_RXPKT, IdAck(U1, 2, 1, 21, 0))}
        \cup {Frame(UMSG_RXPKT, p) : p \in OtherPayloads}
        \cup {Frame(UMSG_LOG, <<79, 75, 13, 10>>), Frame(UMSG_LOG, <<200>>),
              rfIDRequestAll(255), dongleSetChannel(2)}

NextOther ==
    \/ \E f \in OtherFrames : PumpRead(f)
    \/ ApiGet
    \/ ApiAcquire
    \/ ApiBranch
    \/ ApiWrite
    \/ ApiRelease
    \/ \E c \in Callers :
          \/ \E ch \in Channels : SetChannel(c, ch)
          \/ DongleSetChannel(c)

SpecOther == Init /\ [][NextOther]_vars

\* A log line, an echo, or an 'R' frame that decodes (it has the size, header,
\* hop and group bytes) to a message type other than IDACK and REPORTACK.
IsOtherFrame(pkt) ==
    \/ pkt.type \in {UMSG_LOG, UMSG_TXPKT, UMSG_CMD}
    \/ /\ pkt.type = UMSG_RXPKT
       /\ Len(pkt.payload) >= 4
       /\ (pkt.payload[2] % 128) \div 16 \notin {XRF_TYPE_IDACK, XRF_TYPE_REPORTACK}

\* The dispatch thread takes a step of the dispatch of such a frame: it
\* takes the frame off rxQueue, or goes on in parseRxPacket with it.
OtherFrameStep ==
    \/ /\ apiPc = "poll"
       /\ rxQueue # <<>>
       /\ IsOtherFrame(Queue_get(rxQueue).item)
       /\ apiIo' # apiIo \/ apiPc' # apiPc \/ Len(rxQueue') < Len(rxQueue)
    \/ /\ apiPc \in {"acquire", "branch", "release"}
       /\ IsOtherFrame(Frame(UMSG_RXPKT, apiPayload))
       /\ apiPc' # apiPc

\* C25: every step of the dispatch of a log line, of an echo, or of an 'R'
\* frame decoding to a type other than IDACK and REPORTACK leaves the registry and the
\* current channel as they are and does not end the dispatch loop; a log line
\* that is not ASCII is taken off the queue and the loop polls on.
C25_OtherFramesNoEffect ==
    [][OtherFrameStep =>
          /\ Registry' = Registry
          /\ currentChannel' = currentChannel
          /\ apiPc' # "dead"
          /\ (apiPc = "poll" /\ Queue_get(rxQueue).item.type = UMSG_LOG)
                => apiPc' = "poll"]_vars

\* The registry holding a device, and the channel set to 2, the dispatch
\* thread is at the end of parseRxPacket with a packet of another type that
\* names the device.
C25_Witness ==
    /\ apiPc = "release"
    /\ IsOtherFrame(Frame(UMSG_RXPKT, apiPayload))
    /\ Len(apiPayload) > HeaderBytes
    /\ KeyOf(apiPayload) \in DOMAIN Registry
    /\ currentChannel = 2


(***************************************************************************)
(* The pump and the dispatch loop under fair scheduling.                   *)
(***************************************************************************)
\* The most stray bytes waiting on the link at a time.
MaxWaiting == 2

\* The frames the dongle sends: a log line and a command echo.
LiveFrames == {Frame(UMSG_LOG, <<79>>), Frame(UMSG_CMD, <<UCMD_CHANNEL, 2>>)}

\* The frames the callers enqueue: a set-channel command and an ID request.
LiveCalls == {dongleSetChannel(2), rfIDRequestAll(255)}

\* The bytes of a whole frame come in on the link.
Receive(f) ==
    /\ received < MaxFrames
    /\ received' = received + 1
    /\ serialIn' = serialIn \o transmit_packet(f)
    /\ UNCHANGED <<framerVars, fed, cuts, txQueue, channel, currentChannel, registryVars,
                   now, apiVars, callers, linkVars, callVars, noteVars>>

\* A byte that is no tag comes in on the link, between two frames; the link
\* may bring such bytes for ever.
Noise(b) ==
    /\ Len(serialIn) < MaxWaiting
    /\ serialIn' = Append(serialIn, b)
    /\ UNCHANGED <<framerVars, fed, cuts, received, txQueue, channel, currentChannel,
                   registryVars, now, apiVars, callers, linkVars, callVars, noteVars>>

\* The read, whose bytes are not noted.
PumpReadLive ==
    /\ ReadBuff(FALSE)
    /\ UNCHANGED fed

\* The steps of XrfCommsThread.run, no serial call failing.
PumpLive ==
    \/ PumpInWaiting(FALSE)
    \/ PumpReadLive
    \/ PumpTxEmpty
    \/ PumpGet
    \/ PumpWrite(FALSE)
    \/ PumpWritten
    \/ PumpSleep

NextLive ==
    \/ \E f \in LiveFrames : Receive(f)
    \/ Noise(3)
    \/ PumpLive
    \/ \E pkt \in LiveCalls : Enqueue(pkt)
    \/ LinkDispatch

\* Both threads are scheduled fairly: a thread that can take a step takes one.
SpecLive ==
    /\ Init
    /\ [][NextLive]_vars
    /\ WF_vars(PumpLive)
    /\ WF_vars(LinkDispatch)

\* C26: under fair scheduling of the two loops and with no serial failure,
\* the n-th frame enqueued is eventually written to the link and the n-th
\* frame received on the link is eventually dispatched, also while bytes keep
\* arriving.
C26_EveryFrameServed ==
    /\ \A n \in 1..MaxSent :
          (Len(enqueued) >= n) ~> (Len(SentFrames(serialOut)) >= n)
    /\ \A n \in 1..MaxFrames :
          (received >= n) ~> (Len(dispatched) >= n)

====
